---------------------------- MODULE Spec2Model ----------------------------
(***************************************************************************)
(* Model of the Chladni plate explorer (render.js, physics.js, ui.js).     *)
(*                                                                         *)
(* Number representation.  Frequencies are kept on a logarithmic grid: an  *)
(* integer k stands for the frequency 20 * 1000^(k / Den) Hz, so that      *)
(* Math.log and Math.exp are exact on the grid (log of k is k, position 0  *)
(* is F_MIN = 20 Hz and position Den is F_MAX = 20000 Hz).  Den is chosen  *)
(* so that every catalog's log-uniform base frequencies i/(N-1) fall on    *)
(* the grid.  The non-numeric doubles NaN, -Infinity and +Infinity are the *)
(* records NaN, NegInf and PosInf.  A plate size is kept as the integer    *)
(* s with plateSize^2 = 1000^(s / Den), so multiplying a frequency by      *)
(* plateSize^2 adds s and dividing by it subtracts s.  Floating-point      *)
(* rounding is not modelled: arithmetic on the grid is exact.              *)
(***************************************************************************)
EXTENDS Integers, Sequences, FiniteSets, TLC

VARIABLES
    params,          \* this.params: [shape, plateSize, freqHz]
    squareModes,     \* this.squareModes: sequence of mode records
    circleModes,     \* this.circleModes
    blendInfo,       \* this.blendInfo
    nodalPoints,     \* this.nodalPoints: sequence of grid points <<i, j>>
    cx, cy,          \* this.cx, this.cy
    halfPlatePix,    \* this.halfPlatePix
    clientWidth,     \* canvas.clientWidth
    clientHeight,    \* canvas.clientHeight
    lastPass,        \* locals of the last recomputeField run (maxAbs, threshold)
    summary,         \* last value returned by getActiveModeSummary
    animationFrameId,\* this.animationFrameId: null or a request id
    lastTimestamp,   \* this.lastTimestamp: null or a timestamp (ms)
    time,            \* this.time, in ms
    requested,       \* the browser's animation-frame requests not yet run or cancelled
    nextId,          \* the id the next requestAnimationFrame call returns
    clock,           \* the browser's frame clock (ms)
    frames,          \* number of loop runs so far
    drawn            \* what the last loop run painted on the canvas

\* The animation state of the renderer and of the browser.
animVars == <<animationFrameId, lastTimestamp, time, requested, nextId, clock,
              frames, drawn>>

vars == <<params, squareModes, circleModes, blendInfo, nodalPoints, cx, cy,
          halfPlatePix, clientWidth, clientHeight, lastPass, summary,
          animationFrameId, lastTimestamp, time, requested, nextId, clock,
          frames, drawn>>

\* Doubles: a grid number, or one of the three non-numeric values.
Num(k) == [t |-> "num", v |-> k]
NaN == [t |-> "NaN", v |-> 0]
NegInf == [t |-> "-Inf", v |-> 0]
PosInf == [t |-> "+Inf", v |-> 0]
IsNum(x) == x.t = "num"

\* A reference to a mode is its 0-based catalog index; null and undefined are:
NullRef == [t |-> "null", v |-> 0]
UndefinedRef == [t |-> "undefined", v |-> 0]
Ref(i) == [t |-> "mode", v |-> i]
IsMode(r) == r.t = "mode"

----------------------------------------------------------------------------
(* Bounds of the model *)

\* Grid points per catalog step are a multiple of GridRefine.
GridRefine == 2
\* Plate sizes range over -MaxSizeStep..MaxSizeStep steps of SizeUnit.
MaxSizeStep == 1
\* Catalog bounds explored by the small-catalog specification: 0..MaxSmallBound.
MaxSmallBound == 2
\* Every grid has at least MinGrid steps between F_MIN and F_MAX.
MinGrid == 100
\* requestAnimationFrame is called at most MaxRequests times.
MaxRequests == 3
\* Frame timestamps range over 0..MaxClock ms.
MaxClock == 1
\* Catalog steps swept at each end of the range by the tuning specification.
TuneSteps == 2

(* Program constants *)

\* buildSquareModes(7, 7) and buildCircleModes(7, 7) in the constructor.
CtorMaxM == 7
CtorMaxN == 7
CtorMaxRadial == 7
\* this.nodeThreshold = 0.08 = NodeThresholdNum / NodeThresholdDen
NodeThresholdNum == 2
NodeThresholdDen == 25
\* this.resolution.  The source samples 320 x 320 points; the model samples
\* 4 x 4, the grid on which every cos(n*pi*X) of the square mode is rational.
resolution == 4

\* The element of a one-element set: TheOne({F(x) : x \in {e}}) is F(e) with e
\* computed once.
TheOne(S) == CHOOSE r \in S : TRUE

Max(a, b) == IF a >= b THEN a ELSE b
Min(a, b) == IF a <= b THEN a ELSE b
Abs(a) == IF a < 0 THEN -a ELSE a

----------------------------------------------------------------------------
(* Mode catalogs: buildSquareModes, buildCircleModes *)

\* The nested loops "for m = 1..maxM, for n = 1..maxN, skip m = n", in push order.
\* modeIndex holds m*m + n*n, the square of Math.sqrt(m*m + n*n): the sort
\* comparator only uses the sign of a difference of two such roots.
SquarePair(k, maxN) ==
    [m |-> ((k - 1) \div maxN) + 1,
     n |-> ((k - 1) % maxN) + 1,
     modeIndex |-> (((k - 1) \div maxN) + 1) * (((k - 1) \div maxN) + 1)
                   + (((k - 1) % maxN) + 1) * (((k - 1) % maxN) + 1)]

\* The enumeration without the "if (m === n) continue" of line 22.
SquareEnumerationAll(maxM, maxN) == [k \in 1..(maxM * maxN) |-> SquarePair(k, maxN)]

\* tmp after the loops: the pairs with m # n.
SquareEnumeration(maxM, maxN) ==
    LET notDegenerate(e) == e.m # e.n
    IN SelectSeq([k \in 1..(maxM * maxN) |-> SquarePair(k, maxN)], notDegenerate)

\* The nested loops "for m = 0..maxM, for nRadial = 1..maxRadial", in push order.
CircleEnumeration(maxM, maxRadial) ==
    [k \in 1..((maxM + 1) * maxRadial) |->
        [m |-> (k - 1) \div maxRadial,
         nRadial |-> ((k - 1) % maxRadial) + 1,
         modeIndex |-> ((k - 1) \div maxRadial) * ((k - 1) \div maxRadial)
                       + (((k - 1) % maxRadial) + 1) * (((k - 1) % maxRadial) + 1)]]

\* The comparator (a, b) => a.modeIndex - b.modeIndex.
Compare(a, b) == a.modeIndex - b.modeIndex

\* A sort that reverses equal elements.
SortedPositionUnstable(tmp, i) ==
    Cardinality({j \in 1..Len(tmp) :
                    \/ Compare(tmp[j], tmp[i]) < 0
                    \/ Compare(tmp[j], tmp[i]) = 0 /\ j >= i})

\* Array.prototype.sort is stable: element i of tmp comes behind every element
\* that compares less than it and behind the equal elements pushed before it.
SortedPosition(tmp, i) ==
    Cardinality({j \in 1..Len(tmp) :
                    \/ Compare(tmp[j], tmp[i]) < 0
                    \/ Compare(tmp[j], tmp[i]) = 0 /\ j <= i})

SortModes(tmp) ==
    [r \in 1..Len(tmp) |-> tmp[CHOOSE i \in 1..Len(tmp) : SortedPosition(tmp, i) = r]]

\* Number of grid steps between F_MIN and F_MAX for catalogs of nSq and nCi modes.
\* Small catalogs get a grid of at least MinGrid steps.
GridDen(nSq, nCi) ==
    LET steps == GridRefine * Max(1, nSq - 1) * Max(1, nCi - 1)
    IN IF steps < MinGrid THEN steps * MinGrid ELSE steps

\* The loop assigning baseFreq = exp(LOG_F_MIN + t * (LOG_F_MAX - LOG_F_MIN)),
\* t = N > 1 ? i / (N - 1) : 0, and eigenFreq = baseFreq; den is the grid size.
AssignBaseFreq(sorted, den) ==
    LET N == Len(sorted)
    IN [i \in 1..N |->
          [fld \in (DOMAIN sorted[i]) \cup {"baseFreq", "eigenFreq"} |->
             IF fld \in {"baseFreq", "eigenFreq"}
             THEN (IF N > 1 THEN ((i - 1) * den) \div (N - 1) ELSE 0)
             ELSE sorted[i][fld]]]

buildSquareModes(maxM, maxN, den) ==
    TheOne({AssignBaseFreq(sorted, den) :
              sorted \in {SortModes(tmp) : tmp \in {SquareEnumeration(maxM, maxN)}}})

buildCircleModes(maxM, maxRadial, den) ==
    TheOne({AssignBaseFreq(sorted, den) :
              sorted \in {SortModes(tmp) : tmp \in {CircleEnumeration(maxM, maxRadial)}}})

\* Grid size of the current state's catalogs: position Den is F_MAX.
Den == GridDen(Len(squareModes), Len(circleModes))


----------------------------------------------------------------------------
(* Doubles on the grid *)

\* a < b for doubles, false when either is NaN.
Less(a, b) ==
    /\ a.t # "NaN" /\ b.t # "NaN"
    /\ \/ a.t = "-Inf" /\ b.t # "-Inf"
       \/ b.t = "+Inf" /\ a.t # "+Inf"
       \/ a.t = "num" /\ b.t = "num" /\ a.v < b.v

\* Math.min and Math.max: NaN if either argument is NaN.
MathMin(a, b) == IF a.t = "NaN" \/ b.t = "NaN" THEN NaN ELSE IF Less(b, a) THEN b ELSE a
MathMax(a, b) == IF a.t = "NaN" \/ b.t = "NaN" THEN NaN ELSE IF Less(a, b) THEN b ELSE a

\* x * plateSize * plateSize for a plate size s (a positive finite number).
TimesSizeSquared(x, s) == IF IsNum(x) THEN Num(x.v + s) ELSE x
\* x * (1 / L): a scale that forgets the square.
TimesScaleLinear(x, s) == x - (s \div 2)
\* x * scale, scale = 1 / (L * L), for a plate size s.
TimesScale(x, s) == x - s

\* const F_MIN = 20, F_MAX = 20000, LOG_F_MIN = Math.log(F_MIN),
\* LOG_F_MAX = Math.log(F_MAX), on a grid of den steps.
F_MIN == Num(0)
\* F_MAX = 2000, one zero short: two thirds of the way up the grid.
F_MAXTypo(den) == Num((2 * den) \div 3)
F_MAX(den) == Num(den)
LOG_F_MIN == Num(0)
LOG_F_MAX(den) == Num(den)

\* Math.log of a finite positive double: the grid position itself.
MathLog(x) == x

\* Math.max(F_MIN, Math.min(F_MAX, x))
ClampToAudible(x, den) == MathMax(F_MIN, MathMin(F_MAX(den), x))

----------------------------------------------------------------------------
(* computeBlendInfo *)

\* shape === "square" ? this.squareModes : this.circleModes
ModesOf(shape, sq, ci) == IF shape = "square" THEN sq ELSE ci
ActiveModes(shape) == ModesOf(shape, squareModes, circleModes)

\* modes[i]: the entry, or undefined outside 0..N-1.
ModeAt(modes, i) == IF 0 <= i /\ i < Len(modes) THEN Ref(i) ELSE UndefinedRef

\* i1 = i0 + 1 without the Math.min.
SplitIndexNoMin(pp, den, N) ==
    [i0 |-> pp \div den, i1 |-> (pp \div den) + 1, alpha |-> pp - (pp \div den) * den]
\* alpha = (i0 + 1) - p, the weights swapped.
SplitIndexSwapped(pp, den, N) ==
    [i0 |-> pp \div den, i1 |-> Min((pp \div den) + 1, N - 1),
     alpha |-> ((pp \div den) + 1) * den - pp]
\* i0 = Math.floor(p), i1 = Math.min(i0 + 1, N - 1), alpha = p - i0, for p = pp / den.
SplitIndex(pp, den, N) ==
    [i0 |-> pp \div den, i1 |-> Min((pp \div den) + 1, N - 1),
     alpha |-> pp - (pp \div den) * den]

\* computeBlendInfo on a renderer with params p and catalogs sq, ci.
\* alpha and p are kept in units of 1/den: alpha.v = den * alpha.
BlendInfoOf(p, sq, ci) ==
    LET shape == p.shape
        modes == ModesOf(shape, sq, ci)
        N == Len(modes)
        den == GridDen(Len(sq), Len(ci))
    IN IF N = 0
       THEN [shape |-> shape, freqHz |-> p.freqHz, plateSize |-> p.plateSize,
             mode0 |-> NullRef, mode1 |-> NullRef, alpha |-> Num(0)]
       ELSE
        LET plateSize == p.plateSize
            driveHz == ClampToAudible(p.freqHz, den)
            fBase == TimesSizeSquared(driveHz, plateSize)
            logFBase == MathLog(ClampToAudible(fBase, den))
            \* t = (logFBase - LOG_F_MIN) / (LOG_F_MAX - LOG_F_MIN), in units of 1/den
            t == IF IsNum(logFBase)
                 THEN Num(((logFBase.v - LOG_F_MIN.v) * den)
                          \div (LOG_F_MAX(den).v - LOG_F_MIN.v))
                 ELSE NaN
            tClamped == MathMax(Num(0), MathMin(Num(den), t))
        IN IF IsNum(tClamped)
           THEN LET split == SplitIndex(tClamped.v * (N - 1), den, N)
                IN [shape |-> shape, freqHz |-> driveHz, plateSize |-> plateSize,
                    mode0 |-> ModeAt(modes, split.i0),
                    mode1 |-> ModeAt(modes, split.i1),
                    alpha |-> Num(split.alpha)]
           ELSE \* p, i0, i1 and alpha are NaN; modes[NaN] is undefined
                [shape |-> shape, freqHz |-> driveHz, plateSize |-> plateSize,
                 mode0 |-> UndefinedRef, mode1 |-> UndefinedRef, alpha |-> NaN]

computeBlendInfo == BlendInfoOf(params, squareModes, circleModes)

----------------------------------------------------------------------------
(* physics.js on the sampling grid: point (i, j) has                       *)
(* xNorm = -1 + i * step, yNorm = -1 + j * step, step = 2 / (resolution-1) *)

\* 2 * cos(k * pi / 3)
TwoCosThird(k) == <<2, 1, -1, -2, -1, 1>>[(k % 6) + 1]

\* 4 * squareModeDisplacement(xNorm, yNorm, m, n): X = i / 3, Y = j / 3.
squareModeDisplacement(i, j, m, n) ==
    IF m = n THEN 0
    ELSE TwoCosThird(n * i) * TwoCosThird(m * j)
         - TwoCosThird(m * i) * TwoCosThird(n * j)

\* 9 * (xNorm^2 + yNorm^2)
NineRadiusSquared(i, j) ==
    (2 * i - (resolution - 1)) * (2 * i - (resolution - 1))
    + (2 * j - (resolution - 1)) * (2 * j - (resolution - 1))

\* Math.hypot(xNorm, yNorm) <= 1
InsideDisc(i, j) == NineRadiusSquared(i, j) <= (resolution - 1) * (resolution - 1)

\* 100 * cos(k * pi / 4), rounded
CosQuarter(k) == <<100, 71, 0, -71, -100, -71, 0, 71>>[(k % 8) + 1]

\* 100 * radialMode(r, nRadial) = 100 * cos(nRadial * pi * r) * exp(-1.2 * r * r)
\* at r = sqrt(2) / 3, the radius of every grid point inside the disc, rounded.
radialMode(nRadial) == <<7, -75, -20, 72, 33, -66, -45, 58>>[nRadial]

\* theta = atan2(yNorm, xNorm) in units of pi / 4 (mod 8) for |xNorm| = |yNorm|
ThetaQuarter(i, j) ==
    IF 2 * i > resolution - 1
    THEN (IF 2 * j > resolution - 1 THEN 1 ELSE 7)
    ELSE (IF 2 * j > resolution - 1 THEN 3 ELSE 5)

\* 10000 * circleModeDisplacement(xNorm, yNorm, m, nRadial)
circleModeDisplacement(i, j, m, nRadial) ==
    IF ~InsideDisc(i, j) THEN 0
    ELSE radialMode(nRadial) * CosQuarter(m * ThetaQuarter(i, j))

\* Scale of the displacement values above.
ValueScale(shape) == IF shape = "square" THEN 4 ELSE 10000

----------------------------------------------------------------------------
(* updateModeFrequencies *)

\* A rescaling that overwrites baseFreq as well.
RescaleModesInPlace(modes, L) ==
    [i \in DOMAIN modes |->
        [modes[i] EXCEPT !.eigenFreq = TimesScale(modes[i].baseFreq, L),
                         !.baseFreq = TimesScale(modes[i].baseFreq, L)]]

\* m.eigenFreq = m.baseFreq * scale for every mode, scale = 1 / (L * L)
RescaleModes(modes, L) ==
    [i \in DOMAIN modes |->
        [modes[i] EXCEPT !.eigenFreq = TimesScale(modes[i].baseFreq, L)]]

\* The call this.updateModeFrequencies() inside updateParams: it runs after
\* Object.assign, on the new plate size.
updateModeFrequencies ==
    /\ squareModes' = RescaleModes(squareModes, params'.plateSize)
    /\ circleModes' = RescaleModes(circleModes, params'.plateSize)

----------------------------------------------------------------------------
(* recomputeField *)

NoPass == [ran |-> FALSE, maxAbs |-> 0, threshold |-> 0, one |-> 0]

\* The grid in scan order: idx = j * res + i for j, i in 0..res-1.
ScanOrder == [idx \in 1..(resolution * resolution) |->
                <<(idx - 1) % resolution, (idx - 1) \div resolution>>]

\* inside: |xNorm| <= 1 and |yNorm| <= 1 for the square, hypot <= 1 for the circle.
Inside(shape, i, j) ==
    IF shape = "square"
    THEN Abs(2 * i - (resolution - 1)) <= resolution - 1
         /\ Abs(2 * j - (resolution - 1)) <= resolution - 1
    ELSE InsideDisc(i, j)

\* Displacement of one catalog mode at a grid point.
ModeValue(shape, mode, i, j) ==
    IF shape = "square"
    THEN squareModeDisplacement(i, j, mode.m, mode.n)
    ELSE circleModeDisplacement(i, j, mode.m, mode.nRadial)

\* amplitudes[idx]: (1 - alpha) * v0 + alpha * v1 inside, 0 outside, in units
\* of 1 / (ValueScale * den); a is den * alpha.
Amplitude(shape, mode0, mode1, a, den, i, j) ==
    IF ~Inside(shape, i, j) THEN 0
    ELSE (den - a) * ModeValue(shape, mode0, i, j) + a * ModeValue(shape, mode1, i, j)

\* let maxAbs = 0; ... if (absVal > maxAbs) maxAbs = absVal, over the grid.
\* (Outside points are skipped by the loop; their amplitude is 0.)
RECURSIVE MaxAbsOver(_, _)
MaxAbsOver(values, k) ==
    IF k = 0 THEN 0
    ELSE Max(Abs(values[k]), MaxAbsOver(values, k - 1))

\* threshold = nodeThreshold * Math.max(maxAbs, 1): a floor at 1.
NodeThresholdFloored(maxAbs, one) == NodeThresholdNum * Max(maxAbs, one)
\* threshold = nodeThreshold * (maxAbs > 0 ? maxAbs : 1), times NodeThresholdDen.
NodeThresholdOf(maxAbs, one) ==
    NodeThresholdNum * (IF maxAbs > 0 THEN maxAbs ELSE one)

\* The second loop: the grid points with Math.abs(val) <= threshold, in scan order.
NodesOf(amplitudes, threshold) ==
    LET isNode(idx) == Abs(amplitudes[idx]) <= threshold \div NodeThresholdDen
        nodeIdx == SelectSeq([idx \in 1..(resolution * resolution) |-> idx], isNode)
    IN [k \in 1..Len(nodeIdx) |-> ScanOrder[nodeIdx[k]]]

\* A first loop whose "continue" for an outside point stores nothing and does
\* not advance idx: the inside values are packed at the front of the array.
AmplitudesPacked(info, mode0, mode1, den) ==
    LET inside(idx) == Inside(info.shape, ScanOrder[idx][1], ScanOrder[idx][2])
        kept == SelectSeq([idx \in 1..(resolution * resolution) |-> idx], inside)
    IN [idx \in 1..(resolution * resolution) |->
           IF idx <= Len(kept)
           THEN Amplitude(info.shape, mode0, mode1, info.alpha.v, den,
                          ScanOrder[kept[idx]][1], ScanOrder[kept[idx]][2])
           ELSE 0]

\* The first loop: amplitudes[idx] for every grid point.
AmplitudesOf(info, mode0, mode1, den) ==
    [idx \in 1..(resolution * resolution) |->
        Amplitude(info.shape, mode0, mode1, info.alpha.v, den,
                  ScanOrder[idx][1], ScanOrder[idx][2])]

\* What the pass leaves, given the amplitudes and their maximum.
PassResult(info, amplitudes, maxAbs, one, width, height) ==
    [blendInfo |-> info,
     nodalPoints |-> NodesOf(amplitudes, NodeThresholdOf(maxAbs, one)),
     lastPass |-> [ran |-> TRUE, maxAbs |-> maxAbs,
                   threshold |-> NodeThresholdOf(maxAbs, one), one |-> one],
     cx |-> width \div 2,
     cy |-> height \div 2,
     halfPlatePix |-> [minDim |-> Min(width, height), plateSize |-> info.plateSize]]

\* The sampling pass of recomputeField for a blend of two catalog modes; the
\* number 1 is ValueScale * den in the units of the amplitudes.
SampledField(info, mode0, mode1, den, width, height) ==
    TheOne({PassResult(info, amplitudes,
                       MaxAbsOver(amplitudes, resolution * resolution),
                       ValueScale(info.shape) * den, width, height) :
              amplitudes \in {AmplitudesOf(info, mode0, mode1, den)}})

\* recomputeField from the blend descriptor on: the early return, or the pass.
FieldFromBlend(info, sq, ci, width, height, old) ==
    IF width = 0 \/ height = 0 \/ ~IsMode(info.mode0) \/ ~IsMode(info.mode1)
    THEN [blendInfo |-> info, nodalPoints |-> <<>>, lastPass |-> NoPass,
          cx |-> old.cx, cy |-> old.cy, halfPlatePix |-> old.halfPlatePix]
    ELSE SampledField(info,
                      ModesOf(info.shape, sq, ci)[info.mode0.v + 1],
                      ModesOf(info.shape, sq, ci)[info.mode1.v + 1],
                      GridDen(Len(sq), Len(ci)), width, height)

\* recomputeField on a renderer with params p, catalogs sq and ci and a canvas
\* of width x height; old holds this.cx, this.cy and this.halfPlatePix before
\* the call.  The result holds every field the call assigns.
FieldOf(p, sq, ci, width, height, old) ==
    TheOne({FieldFromBlend(info, sq, ci, width, height, old) :
              info \in {BlendInfoOf(p, sq, ci)}})

\* The call this.recomputeField() at the end of a handler: it reads the
\* params, catalogs and canvas size the handler leaves.
recomputeField ==
    \E r \in {FieldOf(params', squareModes', circleModes', clientWidth', clientHeight',
                      [cx |-> cx, cy |-> cy, halfPlatePix |-> halfPlatePix])} :
       /\ blendInfo' = r.blendInfo
       /\ nodalPoints' = r.nodalPoints
       /\ lastPass' = r.lastPass
       /\ cx' = r.cx
       /\ cy' = r.cy
       /\ halfPlatePix' = r.halfPlatePix

----------------------------------------------------------------------------
(* getActiveModeSummary *)

\* 10000 * 10^(2^-(j+1)) for j = 1..13, and 10000 * 10^(1/2)
RootOfTen(j) == <<17783, 13335, 11548, 10746, 10366, 10182, 10090,
                  10045, 10023, 10011, 10006, 10003, 10001>>[j]
SqrtTen == 31623

\* Binary digit j of the fraction rem / den, 0 <= rem < den.
FractionBit(rem, den, j) == ((rem * (2 ^ j)) \div den) % 2

\* 10000 * 10^(rem / (2 * den)) for 0 <= rem < den: the product of the roots
\* of ten at the binary digits j..13 of rem / den.
RECURSIVE TenToHalfFraction(_, _, _)
TenToHalfFraction(rem, den, j) ==
    IF j > 13 THEN 10000
    ELSE IF FractionBit(rem, den, j) = 1
         THEN (TenToHalfFraction(rem, den, j + 1) * RootOfTen(j)) \div 10000
         ELSE TenToHalfFraction(rem, den, j + 1)

PowerOfTen(e) == 10 ^ Max(e, 0)

\* The value in Hz of grid position k, 20 * 1000^(k / den), as a fixed-point
\* number in units of 0.0002 Hz (used where the code subtracts frequencies).
\* Positions below a tenth of F_MIN are not used.
Hertz(k, den) ==
    TheOne({(IF half % 2 = 1
             THEN (TenToHalfFraction(6 * k - half * den, den, 1) * SqrtTen) \div 10000
             ELSE TenToHalfFraction(6 * k - half * den, den, 1))
            * PowerOfTen((half \div 2) + 1) :
            half \in {(6 * k) \div den}})

NullNum == [t |-> "null", v |-> 0]
NoWeighted == [mode |-> NullRef, weight |-> Num(0)]
NoSummary ==
    [called |-> FALSE, shape |-> "", freqHz |-> Num(0), plateSize |-> 0,
     alpha |-> Num(0), mode0 |-> NullRef, mode1 |-> NullRef,
     primaryMode |-> NoWeighted, secondaryMode |-> NoWeighted,
     closestMode |-> NullRef, closestEigenFreq |-> NullNum, detuning |-> NullNum]

\* diff = Math.abs(m.eigenFreq - freqHz); NaN when freqHz is NaN.
Detune(eigenFreq, freqHz, den) ==
    IF IsNum(freqHz) THEN Num(Abs(Hertz(eigenFreq, den) - Hertz(freqHz.v, den))) ELSE NaN

\* One step of modes.forEach(m => { if (diff < bestDiff) { bestDiff = diff;
\* closest = m } }): the later candidate replaces the earlier only if its diff
\* is strictly smaller.
KeepCloser(earlier, later) ==
    IF Less(later.bestDiff, earlier.bestDiff) THEN later ELSE earlier

\* The loop over modes lo..hi (1-based), from bestDiff = Infinity and
\* closest = null; the range is scanned in halves, left half first.
RECURSIVE ClosestScan(_, _, _, _, _)
ClosestScan(modes, freqHz, den, lo, hi) ==
    IF lo > hi THEN [closest |-> NullRef, bestDiff |-> PosInf]
    ELSE IF lo = hi
         THEN KeepCloser([closest |-> NullRef, bestDiff |-> PosInf],
                         [closest |-> Ref(lo - 1),
                          bestDiff |-> Detune(modes[lo].eigenFreq, freqHz, den)])
         ELSE TheOne({KeepCloser(left, right) :
                        left \in {ClosestScan(modes, freqHz, den, lo, (lo + hi) \div 2)},
                        right \in {ClosestScan(modes, freqHz, den, ((lo + hi) \div 2) + 1, hi)}})

\* alpha <= 0.5: a tie labelled the other way.
Mode0FirstOnTie(alpha, den) == alpha.v * 2 <= den
\* alpha < 0.5, for alpha in units of 1/den
Mode0First(alpha, den) == alpha.v * 2 < den

\* detuning: bestDiff, whether or not a closest mode was found.
DetuningUnguarded(scan) == scan.bestDiff
\* detuning: closest ? bestDiff : null
DetuningOf(scan) == IF IsMode(scan.closest) THEN scan.bestDiff ELSE NullNum

\* The summary of blend descriptor info over catalogs sq, ci.  A weight is in
\* units of 1/den, like alpha.  (this.blendInfo is never null after the
\* constructor, so the summary does not recompute it.)
SummaryFrom(info, modes, den, scan) ==
    LET absent == ~IsMode(info.mode0) \/ ~IsMode(info.mode1)
        mode0First == Mode0First(info.alpha, den)
    IN [called |-> TRUE,
        shape |-> info.shape, freqHz |-> info.freqHz, plateSize |-> info.plateSize,
        alpha |-> info.alpha, mode0 |-> info.mode0, mode1 |-> info.mode1,
        primaryMode |->
            IF absent THEN NoWeighted
            ELSE IF mode0First
                 THEN [mode |-> info.mode0, weight |-> Num(den - info.alpha.v)]
                 ELSE [mode |-> info.mode1, weight |-> info.alpha],
        secondaryMode |->
            IF absent THEN NoWeighted
            ELSE IF mode0First
                 THEN [mode |-> info.mode1, weight |-> info.alpha]
                 ELSE [mode |-> info.mode0, weight |-> Num(den - info.alpha.v)],
        closestMode |-> scan.closest,
        closestEigenFreq |->
            IF IsMode(scan.closest) THEN Num(modes[scan.closest.v + 1].eigenFreq)
            ELSE NullNum,
        detuning |-> DetuningOf(scan)]

SummaryOf(info, sq, ci) ==
    TheOne({SummaryFrom(info, ModesOf(info.shape, sq, ci), GridDen(Len(sq), Len(ci)), scan) :
              scan \in {ClosestScan(ModesOf(info.shape, sq, ci), info.freqHz,
                                   GridDen(Len(sq), Len(ci)),
                                   1, Len(ModesOf(info.shape, sq, ci)))}})

getActiveModeSummary == SummaryOf(blendInfo, squareModes, circleModes)

----------------------------------------------------------------------------
(* Inputs *)

\* One step of plate size: plateSize^2 changes by the factor 1000^0.0305 = 1/0.81,
\* so -1 step is plateSize 0.9, 0 is 1.0 and +1 is 1.11.
SizeUnitOf(den) == (den * 305) \div 10000
\* plateSize: 0.9 of the constructor
CtorPlateSize(den) == -SizeUnitOf(den)
\* freqHz: 440 of the constructor: ln(440 / 20) / ln(1000) = 0.4475
CtorFreqHz(den) == Num((den * 4475) \div 10000)

Shapes == {"square", "circle"}
SizeInputs(den) == {j * SizeUnitOf(den) : j \in -MaxSizeStep..MaxSizeStep}
FreqInputs(den) ==
    {NaN, NegInf, PosInf} \cup
    {Num(k) : k \in {0, CtorFreqHz(den).v, den, den + SizeUnitOf(den)}}
\* canvas.clientWidth x canvas.clientHeight; 0 x 0 is a canvas not laid out.
CanvasSizes == {<<0, 0>>, <<600, 400>>, <<400, 600>>}

\* An optional field of the newParams object.
Some(x) == [has |-> TRUE, v |-> x]
NoShape == [has |-> FALSE, v |-> ""]
NoSize == [has |-> FALSE, v |-> 0]
NoFreq == [has |-> FALSE, v |-> NaN]
NewParamsInputs(den) ==
    [shape : {NoShape} \cup {Some(x) : x \in Shapes},
     plateSize : {NoSize} \cup {Some(x) : x \in SizeInputs(den)},
     freqHz : {NoFreq} \cup {Some(x) : x \in FreqInputs(den)}]

----------------------------------------------------------------------------
(* The animation loop: start, stop, loop *)

\* this.animationFrameId: null, or the id requestAnimationFrame returned.
NoRequest == [t |-> "null", v |-> 0]
Request(id) == [t |-> "id", v |-> id]

\* The canvas before the first frame, and after a frame: the outline drawn
\* and the number of dots drawn (nodalPoints.length / 2 in the source).
NoDrawing == [painted |-> FALSE, outline |-> "", dots |-> 0]
Painting(shape, points) == [painted |-> TRUE, outline |-> shape, dots |-> Len(points)]

\* The part of the state start() and stop() work on.
AnimState(id, last, reqs, next) ==
    [animationFrameId |-> id, lastTimestamp |-> last, requested |-> reqs, nextId |-> next]

\* start() without the test of animationFrameId.
startUnguarded(a) ==
    [a EXCEPT !.lastTimestamp = NullNum,
              !.animationFrameId = Request(a.nextId),
              !.requested = @ \cup {a.nextId},
              !.nextId = @ + 1]

\* start(): if (this.animationFrameId == null) { this.lastTimestamp = null;
\* this.animationFrameId = requestAnimationFrame(this.loop) }
start(a) ==
    IF a.animationFrameId = NoRequest
    THEN [a EXCEPT !.lastTimestamp = NullNum,
                   !.animationFrameId = Request(a.nextId),
                   !.requested = @ \cup {a.nextId},
                   !.nextId = @ + 1]
    ELSE a

\* stop(): if (this.animationFrameId != null) {
\* cancelAnimationFrame(this.animationFrameId); this.animationFrameId = null }
stop(a) ==
    IF a.animationFrameId # NoRequest
    THEN [a EXCEPT !.requested = @ \ {a.animationFrameId.v},
                   !.animationFrameId = NoRequest]
    ELSE a

\* dt * 1000 for dt = (timestamp - this.lastTimestamp) / 1000, after
\* "if (this.lastTimestamp == null) this.lastTimestamp = timestamp".
ElapsedMs(last, timestamp) == IF last = NullNum THEN 0 ELSE timestamp - last.v

----------------------------------------------------------------------------
(* The renderer *)

\* The state new ChladniRenderer(canvas) leaves, for catalogs built with the
\* given bounds and a canvas of width x height.
Constructed(maxM, maxN, maxRadial, width, height) ==
    \E den \in {GridDen(Len(SquareEnumeration(maxM, maxN)),
                        Len(CircleEnumeration(maxM, maxRadial)))} :
    \E p \in {[shape |-> "square", plateSize |-> CtorPlateSize(den),
               freqHz |-> CtorFreqHz(den)]} :
    \E sq \in {RescaleModes(buildSquareModes(maxM, maxN, den), p.plateSize)} :
    \E ci \in {RescaleModes(buildCircleModes(maxM, maxRadial, den), p.plateSize)} :
    \E r \in {FieldOf(p, sq, ci, width, height,
                      [cx |-> 0, cy |-> 0,
                       halfPlatePix |-> [minDim |-> 0, plateSize |-> 0]])} :
       /\ params = p
       /\ squareModes = sq
       /\ circleModes = ci
       /\ clientWidth = width
       /\ clientHeight = height
       /\ blendInfo = r.blendInfo
       /\ nodalPoints = r.nodalPoints
       /\ lastPass = r.lastPass
       /\ cx = r.cx
       /\ cy = r.cy
       /\ halfPlatePix = r.halfPlatePix
       /\ summary = NoSummary
       \* this.time = 0, this.lastTimestamp = null, this.animationFrameId = null,
       \* then this.start() as the last statement
       /\ \E a \in {start(AnimState(NoRequest, NullNum, {}, 1))} :
             /\ animationFrameId = a.animationFrameId
             /\ lastTimestamp = a.lastTimestamp
             /\ requested = a.requested
             /\ nextId = a.nextId
       /\ time = 0
       /\ clock = 0
       /\ frames = 0
       /\ drawn = NoDrawing

Init ==
    \E wh \in CanvasSizes :
        Constructed(CtorMaxM, CtorMaxN, CtorMaxRadial, wh[1], wh[2])

\* Object.assign(this.params, newParams)
Assign(p, np) ==
    [shape |-> IF np.shape.has THEN np.shape.v ELSE p.shape,
     plateSize |-> IF np.plateSize.has THEN np.plateSize.v ELSE p.plateSize,
     freqHz |-> IF np.freqHz.has THEN np.freqHz.v ELSE p.freqHz]

\* oldSize read after Object.assign: the new size compared with itself.
SizeChangedAfterAssign(np, oldSize) == np.plateSize.has /\ np.plateSize.v # np.plateSize.v
\* Whether updateParams rescales the catalogs:
\* newParams.plateSize !== undefined && newParams.plateSize !== oldSize
SizeChanged(np, oldSize) == np.plateSize.has /\ np.plateSize.v # oldSize

\* updateParams with recomputeField inside the plate-size test.
UpdateParamsOnSizeOnly(np) ==
    /\ params' = Assign(params, np)
    /\ UNCHANGED <<clientWidth, clientHeight>>
    /\ IF SizeChanged(np, params.plateSize)
       THEN updateModeFrequencies /\ recomputeField
       ELSE UNCHANGED <<squareModes, circleModes, blendInfo, nodalPoints, lastPass,
                        cx, cy, halfPlatePix>>
    /\ summary' = NoSummary
    /\ UNCHANGED animVars

\* updateParams(newParams)
UpdateParams(np) ==
    /\ params' = Assign(params, np)
    /\ IF SizeChanged(np, params.plateSize)
       THEN updateModeFrequencies
       ELSE UNCHANGED <<squareModes, circleModes>>
    /\ UNCHANGED <<clientWidth, clientHeight>>
    /\ recomputeField
    /\ summary' = NoSummary
    /\ UNCHANGED animVars

\* A "resize" listener that only calls updateCanvasSize().
ResizeWithoutRecompute(width, height) ==
    /\ clientWidth' = width
    /\ clientHeight' = height
    /\ UNCHANGED <<params, squareModes, circleModes, blendInfo, nodalPoints, lastPass,
                   cx, cy, halfPlatePix>>
    /\ summary' = NoSummary
    /\ UNCHANGED animVars

\* The window "resize" listener: updateCanvasSize(), then recomputeField().
Resize(width, height) ==
    /\ clientWidth' = width
    /\ clientHeight' = height
    /\ UNCHANGED <<params, squareModes, circleModes>>
    /\ recomputeField
    /\ summary' = NoSummary
    /\ UNCHANGED animVars

\* A call of getActiveModeSummary(); summary holds its return value until
\* the next operation.
GetActiveModeSummary ==
    /\ summary' = getActiveModeSummary
    /\ UNCHANGED <<params, squareModes, circleModes, blendInfo, nodalPoints,
                   cx, cy, halfPlatePix, clientWidth, clientHeight, lastPass>>
    /\ UNCHANGED animVars

\* The fields no animation operation writes.
fieldVars == <<params, squareModes, circleModes, blendInfo, nodalPoints, cx, cy,
               halfPlatePix, clientWidth, clientHeight, lastPass>>

\* A call of start()
Start ==
    /\ nextId <= MaxRequests
    /\ \E a \in {start(AnimState(animationFrameId, lastTimestamp, requested, nextId))} :
          /\ animationFrameId' = a.animationFrameId
          /\ lastTimestamp' = a.lastTimestamp
          /\ requested' = a.requested
          /\ nextId' = a.nextId
    /\ summary' = NoSummary
    /\ UNCHANGED <<time, clock, frames, drawn>>
    /\ UNCHANGED fieldVars

\* A call of stop()
Stop ==
    /\ \E a \in {stop(AnimState(animationFrameId, lastTimestamp, requested, nextId))} :
          /\ animationFrameId' = a.animationFrameId
          /\ lastTimestamp' = a.lastTimestamp
          /\ requested' = a.requested
          /\ nextId' = a.nextId
    /\ summary' = NoSummary
    /\ UNCHANGED <<time, clock, frames, drawn>>
    /\ UNCHANGED fieldVars

\* The browser runs the callback of request id with the given timestamp:
\* loop(timestamp).  The request leaves the browser's list when its callback
\* runs; the last statement of loop files the next request.
Loop(id, timestamp) ==
    /\ id \in requested
    /\ nextId <= MaxRequests
    /\ clock' = timestamp
    /\ lastTimestamp' = Num(timestamp)
    /\ time' = time + ElapsedMs(lastTimestamp, timestamp)
    /\ drawn' = Painting(params.shape, nodalPoints)
    /\ frames' = frames + 1
    /\ animationFrameId' = Request(nextId)
    /\ requested' = (requested \ {id}) \cup {nextId}
    /\ nextId' = nextId + 1
    /\ summary' = NoSummary
    /\ UNCHANGED fieldVars

Next ==
    \/ \E np \in NewParamsInputs(Den) : UpdateParams(np)
    \/ \E wh \in CanvasSizes : Resize(wh[1], wh[2])
    \/ GetActiveModeSummary

Spec == Init /\ [][Next]_vars

----------------------------------------------------------------------------
(* An upward frequency sweep: the renderer on a laid-out canvas, one plate   *)
(* chosen, and the frequency slider moved up one grid step at a time from    *)
(* below F_MIN to above F_MAX.                                               *)

SweepMargin(den) == (MaxSizeStep + 1) * SizeUnitOf(den)

InitSweep == Constructed(CtorMaxM, CtorMaxN, CtorMaxRadial, 600, 400)

\* updateParams({shape, plateSize, freqHz}) on the constructed renderer
SweepStart ==
    /\ params = [shape |-> "square", plateSize |-> CtorPlateSize(Den),
                 freqHz |-> CtorFreqHz(Den)]
    /\ \E shape \in Shapes, size \in SizeInputs(Den) :
          UpdateParams([shape |-> Some(shape), plateSize |-> Some(size),
                        freqHz |-> Some(Num(-SweepMargin(Den)))])

\* updateParams({freqHz}) with the next grid frequency
SweepUp ==
    /\ IsNum(params.freqHz)
    /\ params.freqHz.v < Den + SweepMargin(Den)
    /\ UpdateParams([shape |-> NoShape, plateSize |-> NoSize,
                     freqHz |-> Some(Num(params.freqHz.v + 1))])

\* updateParams({freqHz}) with a non-numeric double
SweepSpecial ==
    /\ params.freqHz = Num(-SweepMargin(Den))
    /\ \E f \in {NaN, NegInf, PosInf} :
          UpdateParams([shape |-> NoShape, plateSize |-> NoSize, freqHz |-> Some(f)])

\* updateParams({freqHz}) back to a grid frequency
SweepResume ==
    /\ ~IsNum(params.freqHz)
    /\ UpdateParams([shape |-> NoShape, plateSize |-> NoSize, freqHz |-> Some(Num(0))])

NextSweep == SweepStart \/ SweepUp \/ SweepSpecial \/ SweepResume

SpecSweep == InitSweep /\ [][NextSweep]_vars

----------------------------------------------------------------------------
(* Tuning: the frequency slider moved one grid step at a time through the    *)
(* lowest and the highest catalog steps, with the mode summary the page      *)
(* shows after every update (ui.js: syncParamsToRenderer, updateModeInfo).   *)

\* Width of one step of the square catalog on the grid.
CatalogStep(den) == den \div Max(1, Len(squareModes) - 1)
\* The sweep runs from TuneMargin below F_MIN over TuneSteps catalog steps,
\* and from TuneSteps catalog steps below F_MAX to TuneMargin above it.
TuneMargin(den) == SizeUnitOf(den) + TuneSteps
TuneBottomEnd(den) == TuneSteps * CatalogStep(den) + TuneMargin(den)
TuneTopStart(den) == den - TuneSteps * CatalogStep(den) - TuneMargin(den)
TuneSizes(den) == {-SizeUnitOf(den), 0, SizeUnitOf(den)}

InitTune == Constructed(CtorMaxM, CtorMaxN, CtorMaxRadial, 600, 400)

\* updateParams({shape, plateSize, freqHz}) on the constructed renderer
TuneStart ==
    /\ params = [shape |-> "square", plateSize |-> CtorPlateSize(Den),
                 freqHz |-> CtorFreqHz(Den)]
    /\ \E shape \in Shapes, size \in TuneSizes(Den),
          f \in {-TuneMargin(Den), TuneTopStart(Den)} :
          UpdateParams([shape |-> Some(shape), plateSize |-> Some(size),
                        freqHz |-> Some(Num(f))])

\* updateParams({freqHz}) with the next grid frequency
TuneUp ==
    /\ IsNum(params.freqHz)
    /\ \/ params.freqHz.v < TuneBottomEnd(Den)
       \/ /\ params.freqHz.v >= TuneTopStart(Den)
          /\ params.freqHz.v < Den + TuneMargin(Den)
    /\ UpdateParams([shape |-> NoShape, plateSize |-> NoSize,
                     freqHz |-> Some(Num(params.freqHz.v + 1))])

\* updateParams({freqHz}) with a non-numeric double
TuneSpecial ==
    /\ params.freqHz = Num(-TuneMargin(Den))
    /\ \E f \in {NaN, NegInf, PosInf} :
          UpdateParams([shape |-> NoShape, plateSize |-> NoSize, freqHz |-> Some(f)])

\* updateModeInfo(): renderer.getActiveModeSummary()
TuneSummary == GetActiveModeSummary

NextTune == TuneStart \/ TuneUp \/ TuneSpecial \/ TuneSummary

SpecTune == InitTune /\ [][NextTune]_vars

----------------------------------------------------------------------------
(* Catalogs built with small bounds, down to the empty catalog. *)

SmallParamsInputs(den) ==
    [shape : {Some(x) : x \in Shapes},
     plateSize : {Some(CtorPlateSize(den)), Some(0)},
     freqHz : {Some(NaN), Some(CtorFreqHz(den)), Some(PosInf)}]

InitSmall ==
    \E maxM \in 0..MaxSmallBound, maxN \in 0..MaxSmallBound, wh \in CanvasSizes :
        Constructed(maxM, maxN, maxN, wh[1], wh[2])

NextSmall ==
    \/ \E np \in SmallParamsInputs(Den) : UpdateParams(np)
    \/ \E wh \in CanvasSizes : Resize(wh[1], wh[2])
    \/ GetActiveModeSummary

SpecSmall == InitSmall /\ [][NextSmall]_vars

----------------------------------------------------------------------------
(* The running page: every operation of the renderer, interleaved with the   *)
(* browser's animation frames.                                               *)

LoopParamsInputs(den) ==
    [shape : {NoShape, Some("circle")},
     plateSize : {NoSize, Some(SizeUnitOf(den))},
     freqHz : {NoFreq, Some(Num(den))}]

InitLoop == Constructed(CtorMaxM, CtorMaxN, CtorMaxRadial, 600, 400)

NextLoop ==
    \/ \E np \in LoopParamsInputs(Den) : UpdateParams(np)
    \/ \E wh \in {<<0, 0>>, <<600, 400>>} : Resize(wh[1], wh[2])
    \/ GetActiveModeSummary
    \/ Start
    \/ Stop
    \/ \E id \in requested, timestamp \in clock..MaxClock : Loop(id, timestamp)

SpecLoop == InitLoop /\ [][NextLoop]_vars

----------------------------------------------------------------------------
(* Properties *)

\* The catalog the current blend descriptor refers to, and its length.
BlendModes == ActiveModes(blendInfo.shape)
BlendN == Len(BlendModes)

\* A grid position clamped to [F_MIN, F_MAX].
ClampPos(k) == Max(0, Min(Den, k))

\* The clamped position of a double that is not NaN.
DrivePos(f) == IF f = NegInf THEN 0 ELSE IF f = PosInf THEN Den ELSE ClampPos(f.v)

\* Den * p for the current params: p = t * (N - 1), t the clamped log position
\* of freqHz * plateSize^2.
ExpectedP == ClampPos(DrivePos(params.freqHz) + params.plateSize) * (BlendN - 1)

\* Den * (i0 + alpha) of a blend descriptor.
BlendP(info) == info.mode0.v * Den + info.alpha.v

\* C1 for a driving frequency that is a number (finite or infinite) and
\* a non-empty catalog of N modes, the descriptor has i0 = floor(p),
\* i1 = min(i0 + 1, N - 1) and alpha = p - i0 for p = t * (N - 1), t clamped to
\* [0, 1]; so 0 <= i0 <= i1 <= N - 1, i1 - i0 is 0 or 1, alpha lies in [0, 1],
\* and i0 = i1 only at the top of the range (p = N - 1, alpha = 0).
C1_BlendIndices ==
    (params.freqHz # NaN /\ BlendN >= 1) =>
        /\ IsMode(blendInfo.mode0) /\ IsMode(blendInfo.mode1) /\ IsNum(blendInfo.alpha)
        /\ blendInfo.mode0.v = ExpectedP \div Den
        /\ blendInfo.mode1.v = Min(blendInfo.mode0.v + 1, BlendN - 1)
        /\ blendInfo.alpha.v = ExpectedP - blendInfo.mode0.v * Den
        /\ 0 <= blendInfo.mode0.v
        /\ blendInfo.mode0.v <= blendInfo.mode1.v
        /\ blendInfo.mode1.v <= BlendN - 1
        /\ blendInfo.mode1.v - blendInfo.mode0.v \in {0, 1}
        /\ 0 <= blendInfo.alpha.v /\ blendInfo.alpha.v <= Den
        /\ (blendInfo.mode0.v = blendInfo.mode1.v =>
               ExpectedP = (BlendN - 1) * Den /\ blendInfo.alpha.v = 0)

\* C1 witness: the sweep has reached the top of the range of the circle
\* catalog on a plate larger than 1, below 20000 Hz, where i0 = i1 = N - 1.
C1_Witness ==
    /\ params.shape = "circle" /\ params.plateSize > 0
    /\ IsNum(params.freqHz) /\ params.freqHz.v < Den
    /\ IsMode(blendInfo.mode0)
    /\ blendInfo.mode0 = blendInfo.mode1
    /\ blendInfo.mode0.v = Len(circleModes) - 1

\* C2: with plate size and shape fixed, a step of the driving frequency from
\* f1 to f2 >= f1 never lowers the interpolation index p = i0 + alpha.
C2_MonotoneSweep ==
    [][(/\ params'.shape = params.shape
        /\ params'.plateSize = params.plateSize
        /\ params.freqHz # NaN /\ params'.freqHz # NaN
        /\ (params.freqHz = params'.freqHz \/ Less(params.freqHz, params'.freqHz)))
       => BlendP(blendInfo') >= BlendP(blendInfo)]_vars

\* C2 witness: the sweep has climbed into the interior of the range, between
\* two modes of the circle catalog.
C2_Witness ==
    /\ params.shape = "circle" /\ IsNum(params.freqHz)
    /\ params.freqHz.v > 0 /\ params.freqHz.v < Den
    /\ IsMode(blendInfo.mode0) /\ blendInfo.mode0.v >= 2
    /\ IsNum(blendInfo.alpha) /\ blendInfo.alpha.v > 0

\* C3: at plateSize = 1, driveFrequency = 20 gives i0 = 0 with alpha = 0 and
\* driveFrequency = 20000 gives i1 = N - 1, for both shapes.
C3_Boundaries ==
    /\ (params.plateSize = 0 /\ params.freqHz = Num(0)) =>
          blendInfo.mode0 = Ref(0) /\ blendInfo.alpha = Num(0)
    /\ (params.plateSize = 0 /\ params.freqHz = Num(Den)) =>
          IsMode(blendInfo.mode0) /\ blendInfo.mode1 = Ref(BlendN - 1)

\* C3 witness: the circle plate of size 1 driven at 20000 Hz.
C3_Witness ==
    /\ params.shape = "circle" /\ params.plateSize = 0 /\ params.freqHz = Num(Den)
    /\ blendInfo.mode1 = Ref(Len(circleModes) - 1)

\* C4 as stated: whenever the driving frequency is exactly the rescaled
\* eigenFrequency of a catalog mode, alpha is 0 or 1.
C4_PureAtEveryEigenFreq ==
    \A i \in 1..BlendN :
        (IsNum(params.freqHz) /\ params.freqHz.v = BlendModes[i].eigenFreq) =>
            blendInfo.alpha.v \in {0, Den}

\* C4 amended: whenever the driving frequency is exactly the rescaled
\* eigenFrequency of catalog mode i and that eigenFrequency lies in
\* [20, 20000] Hz, alpha is 0 or 1 and the field is the pure mode i.
C4_PureAtAudibleEigenFreq ==
    \A i \in 1..BlendN :
        (/\ IsNum(params.freqHz)
         /\ params.freqHz.v = BlendModes[i].eigenFreq
         /\ 0 <= BlendModes[i].eigenFreq /\ BlendModes[i].eigenFreq <= Den) =>
            \/ blendInfo.alpha.v = 0 /\ blendInfo.mode0 = Ref(i - 1)
            \/ blendInfo.alpha.v = Den /\ blendInfo.mode1 = Ref(i - 1)

\* C4 witness: a plate of size other than 1 driven exactly at the audible
\* eigenFrequency of a mode that is neither the first nor the last.
C4_Witness ==
    /\ params.plateSize # 0 /\ IsNum(params.freqHz)
    /\ params.freqHz.v > 0 /\ params.freqHz.v < Den
    /\ \E i \in 2..(BlendN - 1) : params.freqHz.v = BlendModes[i].eigenFreq

\* C5 as stated: every driving-frequency input, NaN and the infinities
\* included, leaves a descriptor whose freqHz lies in [20, 20000] and whose
\* mode0 and mode1 are catalog entries.
C5_EveryInputClamped ==
    BlendN >= 1 =>
        /\ IsNum(blendInfo.freqHz)
        /\ 0 <= blendInfo.freqHz.v /\ blendInfo.freqHz.v <= Den
        /\ IsMode(blendInfo.mode0) /\ IsMode(blendInfo.mode1)

\* C6: with an empty catalog the descriptor has no modes and alpha = 0, the
\* nodal point set is empty, and a summary has null primary, secondary and
\* closest mode and null detuning.
C6_EmptyCatalog ==
    BlendN = 0 =>
        /\ blendInfo.mode0 = NullRef /\ blendInfo.mode1 = NullRef
        /\ blendInfo.alpha = Num(0)
        /\ nodalPoints = <<>>
        /\ summary.called =>
              /\ summary.primaryMode = NoWeighted
              /\ summary.secondaryMode = NoWeighted
              /\ summary.closestMode = NullRef
              /\ summary.closestEigenFreq = NullNum
              /\ summary.detuning = NullNum

\* C6 witness: a summary was taken of an empty catalog on a laid-out canvas.
C6_Witness ==
    /\ BlendN = 0 /\ summary.called
    /\ clientWidth > 0 /\ clientHeight > 0

\* C7 as stated: in every sampling pass threshold = tau * max(maxAbs, 1).
C7_ThresholdFlooredAtOne ==
    lastPass.ran =>
        lastPass.threshold = NodeThresholdNum * Max(lastPass.maxAbs, lastPass.one)

\* C7 amended: in every sampling pass threshold = tau * maxAbs when maxAbs > 0
\* and tau when maxAbs = 0; a node is a grid point with |u| <= threshold, so a
\* field that is zero everywhere marks every grid point.
C7_ThresholdRelative ==
    lastPass.ran =>
        /\ lastPass.maxAbs > 0 =>
              lastPass.threshold = NodeThresholdNum * lastPass.maxAbs
        /\ lastPass.maxAbs = 0 =>
              /\ lastPass.threshold = NodeThresholdNum * lastPass.one
              /\ Len(nodalPoints) = resolution * resolution

\* C7 witness: a sampling pass whose maximum displacement lies strictly
\* between 0 and 1.
C7_Witness ==
    lastPass.ran /\ 0 < lastPass.maxAbs /\ lastPass.maxAbs < lastPass.one

\* Enumeration order of two modes: outer index ascending, then inner index.
PushedBefore(a, b, inner) == a.m < b.m \/ (a.m = b.m /\ a[inner] < b[inner])

\* A catalog is sorted by complexityIndex, equal entries in enumeration order.
StablySorted(modes, inner) ==
    \A i, j \in 1..Len(modes) :
        i < j => /\ modes[i].modeIndex <= modes[j].modeIndex
                 /\ modes[i].modeIndex = modes[j].modeIndex =>
                        PushedBefore(modes[i], modes[j], inner)

\* C8: both catalogs are sorted by complexityIndex with equal entries in
\* enumeration order; the square catalog starts with (1,2), then (2,1).
C8_StableSort ==
    /\ StablySorted(squareModes, "n")
    /\ StablySorted(circleModes, "nRadial")
    /\ squareModes[1].m = 1 /\ squareModes[1].n = 2
    /\ squareModes[2].m = 2 /\ squareModes[2].n = 1

\* C8 witness: the built square catalog holds neighbours of equal
\* complexityIndex after its first pair, e.g. (1,3) and (3,1).
C8_Witness ==
    /\ Len(squareModes) > 3
    /\ squareModes[3].modeIndex = squareModes[4].modeIndex
    /\ squareModes[3].m = 1 /\ squareModes[4].m = 3

\* C9: the square catalog holds exactly the pairs (m,n), 1 <= m,n <= 7,
\* m # n, each once; the circle catalog exactly the pairs (m,nr), 0 <= m <= 7,
\* 1 <= nr <= 7, each once; both have at least 2 entries.
C9_CatalogContents ==
    /\ {<<squareModes[i].m, squareModes[i].n>> : i \in 1..Len(squareModes)}
          = {mn \in (1..7) \X (1..7) : mn[1] # mn[2]}
    /\ Len(squareModes) = 42
    /\ {<<circleModes[i].m, circleModes[i].nRadial>> : i \in 1..Len(circleModes)}
          = (0..7) \X (1..7)
    /\ Len(circleModes) = 56
    /\ Len(squareModes) >= 2 /\ Len(circleModes) >= 2

\* C9 witness: the renderer is blending two distinct modes of the circle catalog.
C9_Witness ==
    /\ blendInfo.shape = "circle" /\ IsMode(blendInfo.mode0)
    /\ blendInfo.mode1.v = blendInfo.mode0.v + 1
    /\ Len(circleModes) = 56

\* C10: every mode of both catalogs has eigenFreq = baseFreq / plateSize^2
\* for the current params.plateSize.
C10_EigenFreqRescaled ==
    /\ \A i \in 1..Len(squareModes) :
          squareModes[i].eigenFreq = squareModes[i].baseFreq - params.plateSize
    /\ \A i \in 1..Len(circleModes) :
          circleModes[i].eigenFreq = circleModes[i].baseFreq - params.plateSize

\* C10 witness: updateParams has moved the plate size from 0.9 to 1.11.
C10_Witness ==
    /\ params.plateSize > 0
    /\ squareModes[2].eigenFreq = squareModes[2].baseFreq - params.plateSize

\* A mode without its eigenFreq: its indices, modeIndex and baseFreq.
ModeIdentity(mode) == [mode EXCEPT !.eigenFreq = 0]

\* Two catalogs of the same length, with the same modes in the same order.
SameCatalog(old, new) ==
    /\ Len(new) = Len(old)
    /\ \A i \in 1..Len(old) : ModeIdentity(new[i]) = ModeIdentity(old[i])

\* C11: no step of any operation (updateParams with its updateModeFrequencies
\* and recomputeField, resize, getActiveModeSummary, start, stop, loop) changes
\* a mode's baseFreq, its indices, or the order and length of either catalog;
\* only eigenFreq is rewritten.
C11_CatalogFrame ==
    [][SameCatalog(squareModes, squareModes') /\ SameCatalog(circleModes, circleModes')]_vars

\* C11 witness: the plate size was changed from 0.9 to 1.11 (the catalogs were
\* rescaled), and a frame was drawn.
C11_Witness ==
    /\ params.plateSize > 0 /\ frames >= 1
    /\ squareModes[2].eigenFreq = squareModes[2].baseFreq - params.plateSize
    /\ circleModes[2].eigenFreq = circleModes[2].baseFreq - params.plateSize

\* C16: at most one animation-frame request is outstanding, and it is the one
\* animationFrameId names; a loop run happens only while the renderer is
\* running and leaves exactly one new request; and any other step taken
\* while running that leaves it running (start() among them) leaves the
\* outstanding request as it is.
C16_SingleRequest ==
    /\ [](/\ Cardinality(requested) <= 1
          /\ requested = IF animationFrameId = NoRequest THEN {}
                         ELSE {animationFrameId.v})
    /\ [][/\ frames' # frames =>
               /\ animationFrameId # NoRequest
               /\ Cardinality(requested' \ requested) = 1
               /\ Cardinality(requested') = 1
          /\ (frames' = frames /\ animationFrameId # NoRequest
              /\ animationFrameId' # NoRequest) =>
               /\ animationFrameId' = animationFrameId
               /\ requested' = requested
               /\ lastTimestamp' = lastTimestamp]_vars

\* C16 witness: the loop ran, was stopped and started again, and is running.
C16_Witness ==
    /\ animationFrameId # NoRequest
    /\ frames >= 1
    /\ nextId > frames + 2

\* A summary of a blend of two catalog modes.
SummaryOfBlend == summary.called /\ IsMode(summary.mode0) /\ IsMode(summary.mode1)

\* mode0 and mode1 of the summary, each annotated with its blend weight.
WeightedMode0 == [mode |-> summary.mode0, weight |-> Num(Den - summary.alpha.v)]
WeightedMode1 == [mode |-> summary.mode1, weight |-> summary.alpha]

\* C12 as stated: primaryMode is whichever of mode0 and mode1 has weight
\* >= 0.5, each annotated with its weight (1 - alpha for mode0, alpha for
\* mode1), and at alpha = 0.5 mode0 is primary and mode1 secondary.
C12_TieFavoursMode0 ==
    SummaryOfBlend =>
        /\ summary.primaryMode.weight.v * 2 >= Den
        /\ \/ summary.primaryMode = WeightedMode0 /\ summary.secondaryMode = WeightedMode1
           \/ summary.primaryMode = WeightedMode1 /\ summary.secondaryMode = WeightedMode0
        /\ summary.alpha.v * 2 = Den =>
              summary.primaryMode = WeightedMode0 /\ summary.secondaryMode = WeightedMode1

\* C12 amended: primaryMode is whichever of mode0 and mode1 has weight >= 0.5,
\* each annotated with its weight, and at alpha = 0.5 mode1 is primary and
\* mode0 secondary (mode0 is primary exactly when alpha < 0.5).
C12_TieFavoursMode1 ==
    SummaryOfBlend =>
        /\ summary.primaryMode.weight.v * 2 >= Den
        /\ summary.alpha.v * 2 < Den =>
              summary.primaryMode = WeightedMode0 /\ summary.secondaryMode = WeightedMode1
        /\ summary.alpha.v * 2 >= Den =>
              summary.primaryMode = WeightedMode1 /\ summary.secondaryMode = WeightedMode0

\* C12 witness: a summary taken at alpha = 0.5 exactly, between two modes.
C12_Witness ==
    /\ SummaryOfBlend
    /\ summary.alpha.v * 2 = Den
    /\ summary.mode0 # summary.mode1

\* |eigenFreq - driveFrequency| of catalog entry i (1-based) of the summary's
\* shape, for the drive frequency of the summary.
SummaryDiff(i) == Detune(ActiveModes(summary.shape)[i].eigenFreq, summary.freqHz, Den)

\* Entry i minimises the difference over the whole catalog, and is the
\* lowest-index entry that does.
FirstMinimum(i) ==
    \A j \in 1..Len(ActiveModes(summary.shape)) :
        /\ ~Less(SummaryDiff(j), SummaryDiff(i))
        /\ SummaryDiff(j) = SummaryDiff(i) => i <= j

\* closestMode, closestEigenFreq and detuning of the summary are those of the
\* first minimum of the catalog.
ClosestIsFirstMinimum ==
    /\ IsMode(summary.closestMode)
    /\ FirstMinimum(summary.closestMode.v + 1)
    /\ summary.detuning = SummaryDiff(summary.closestMode.v + 1)
    /\ summary.closestEigenFreq =
          Num(ActiveModes(summary.shape)[summary.closestMode.v + 1].eigenFreq)

\* C13 as stated: in every summary over a non-empty catalog, closestMode is
\* the catalog entry minimising |eigenFreq - driveFrequency| over the whole
\* catalog, the lowest index winning ties, and detuning is that minimum.
C13_ClosestMode ==
    (summary.called /\ Len(ActiveModes(summary.shape)) >= 1) => ClosestIsFirstMinimum

\* C13 for a drive frequency that is a number: the same statement, for the
\* summaries whose freqHz is not NaN.
C13_ClosestModeOfNumber ==
    (summary.called /\ Len(ActiveModes(summary.shape)) >= 1 /\ IsNum(summary.freqHz))
        => ClosestIsFirstMinimum

\* C17 as stated: for every driving frequency, in every summary over a
\* non-empty catalog closestMode is mode0 or mode1 of the blend descriptor.
C17_ClosestIsBlended ==
    (summary.called /\ BlendN >= 1) =>
        /\ IsMode(summary.closestMode)
        /\ summary.closestMode \in {blendInfo.mode0, blendInfo.mode1}

\* C17 for a drive frequency that is a number (finite or infinite).
C17_ClosestIsBlendedOfNumber ==
    (summary.called /\ BlendN >= 1 /\ params.freqHz # NaN) =>
        /\ IsMode(summary.closestMode)
        /\ summary.closestMode \in {blendInfo.mode0, blendInfo.mode1}

\* C1 as stated, for every driving frequency, NaN included: the indices are
\* catalog positions with 0 <= i0 <= i1 <= N - 1 and alpha lies in [0, 1].
C1_EveryFrequency ==
    BlendN >= 1 =>
        /\ IsMode(blendInfo.mode0) /\ IsMode(blendInfo.mode1) /\ IsNum(blendInfo.alpha)
        /\ 0 <= blendInfo.mode0.v
        /\ blendInfo.mode0.v <= blendInfo.mode1.v
        /\ blendInfo.mode1.v <= BlendN - 1
        /\ 0 <= blendInfo.alpha.v /\ blendInfo.alpha.v <= Den

\* What recomputeField computes from the current params, catalogs and canvas.
FreshField ==
    FieldOf(params, squareModes, circleModes, clientWidth, clientHeight,
            [cx |-> cx, cy |-> cy, halfPlatePix |-> halfPlatePix])

\* updateParams({}): no field of newParams is present.
EmptyParams == [shape |-> NoShape, plateSize |-> NoSize, freqHz |-> NoFreq]

\* C14: a step that leaves shape, plate size, drive frequency and canvas
\* dimensions as they are (a second sampling pass on the same parameters)
\* leaves the nodal point set (grid points and their placement on the canvas)
\* and the blend descriptor identical.
C14_SamplingIdempotent ==
    [][(/\ params' = params
        /\ clientWidth' = clientWidth
        /\ clientHeight' = clientHeight)
       => (/\ nodalPoints' = nodalPoints /\ blendInfo' = blendInfo
           /\ cx' = cx /\ cy' = cy /\ halfPlatePix' = halfPlatePix)]_vars

\* C14 witness: a sampled field with nodes and non-nodes, changed since
\* construction, on which updateParams({}) can sample again with the same
\* result.
C14_Witness ==
    /\ lastPass.ran
    /\ Len(nodalPoints) > 0 /\ Len(nodalPoints) < resolution * resolution
    /\ params.shape = "circle"
    /\ ENABLED (UpdateParams(EmptyParams) /\ nodalPoints' = nodalPoints
                /\ blendInfo' = blendInfo)

\* C15: in every state blendInfo is the descriptor computeBlendInfo yields
\* for the current params, nodalPoints (the grid points, and the centre and
\* half extent that place them on the canvas) is what a fresh sampling pass
\* yields for it and the current canvas, eigenFreq follows from the current plate
\* size, and a summary is the summary of that blend: none depends on the
\* history of earlier updates.
C15_HistoryIndependent ==
    /\ blendInfo = computeBlendInfo
    /\ \E fresh \in {FreshField} :
          /\ blendInfo = fresh.blendInfo
          /\ nodalPoints = fresh.nodalPoints
          /\ cx = fresh.cx /\ cy = fresh.cy /\ halfPlatePix = fresh.halfPlatePix
    /\ \A i \in 1..Len(squareModes) :
          squareModes[i].eigenFreq = TimesScale(squareModes[i].baseFreq, params.plateSize)
    /\ \A i \in 1..Len(circleModes) :
          circleModes[i].eigenFreq = TimesScale(circleModes[i].baseFreq, params.plateSize)
    /\ summary.called => summary = getActiveModeSummary

\* C15 witness: shape, plate size and frequency all differ from the
\* constructor's, the canvas is laid out, and a summary was taken.
C15_Witness ==
    /\ params.shape = "circle" /\ params.plateSize > 0
    /\ params.freqHz = Num(Den)
    /\ clientWidth = 400
    /\ summary.called
    /\ Len(nodalPoints) > 0

\* C18: for the circle, every grid point outside the unit disc is in the
\* nodal point set of every sampling pass.
C18_OutsidePointsNodal ==
    (lastPass.ran /\ blendInfo.shape = "circle") =>
        \A idx \in 1..(resolution * resolution) :
            ~InsideDisc(ScanOrder[idx][1], ScanOrder[idx][2]) =>
                \E k \in 1..Len(nodalPoints) : nodalPoints[k] = ScanOrder[idx]

\* C18 witness: a circle pass whose nodal set holds every outside point and
\* not every inside point.
C18_Witness ==
    /\ lastPass.ran /\ blendInfo.shape = "circle"
    /\ lastPass.maxAbs > 0
    /\ Len(nodalPoints) < resolution * resolution
    /\ \E k \in 1..Len(nodalPoints) :
          ~InsideDisc(nodalPoints[k][1], nodalPoints[k][2])
============================================================================
